---- MODULE Spec2Model ----
(***************************************************************************)
(* A model of the ATO topology-optimization driver of Albany               *)
(* (src/src/ATO/utils/ATO_Optimizer.cpp): the ConvergenceTest framework    *)
(* and the optimality-criteria (OC) optimizer with its volume-constraint   *)
(* sub-solve.                                                              *)
(*                                                                         *)
(* Doubles are modelled on a fixed-point grid: a finite double x is the    *)
(* integer x*Scale, and the three IEEE special values are kept apart       *)
(* (PInf, NInf, NaN), with the IEEE rules for arithmetic and comparison:   *)
(* every ordered comparison with NaN is false, x/0 is an infinity or NaN,  *)
(* inf/inf and 0*inf are NaN.                                              *)
(***************************************************************************)
EXTENDS Integers, Sequences, FiniteSets, TLC

(***************************************************************************)
(* Doubles                                                                 *)
(***************************************************************************)

\* One unit of the grid is 1/Scale.
Scale == 1000

\* The largest finite magnitude of the grid.  A finite result beyond it is
\* pinned at +-FMax and stays finite (a double overflows only past 1e308).
FMax == 2000000

PInf == 3000000
NInf == -3000000
NaN == 4000000

IsNaN(x) == x = NaN
IsInf(x) == x = PInf \/ x = NInf
IsFin(x) == ~IsNaN(x) /\ ~IsInf(x)

Pin(x) == IF x > FMax THEN FMax ELSE IF x < -FMax THEN -FMax ELSE x

Sgn(x) == IF x > 0 THEN 1 ELSE IF x < 0 THEN -1 ELSE 0

IAbs(n) == IF n < 0 THEN -n ELSE n

\* Integer division rounding toward zero (b # 0).
TDiv(a, b) == Sgn(a) * Sgn(b) * (IAbs(a) \div IAbs(b))

FNeg(x) == IF IsNaN(x) THEN NaN ELSE -x

FAbs(x) == IF IsNaN(x) THEN NaN ELSE IAbs(x)

FAdd(a, b) ==
  IF IsNaN(a) \/ IsNaN(b) THEN NaN
  ELSE IF IsInf(a) THEN (IF IsInf(b) /\ a # b THEN NaN ELSE a)
  ELSE IF IsInf(b) THEN b
  ELSE Pin(a + b)

FSub(a, b) == FAdd(a, FNeg(b))

\* The magnitude x*y/Scale of a product of finite magnitudes, pinned at FMax;
\* the product is split so that no intermediate exceeds the machine integer.
MulMag(x, y) ==
  LET q == x \div Scale
      r == x % Scale
  IN IF q > 0 /\ y > FMax \div q THEN FMax
     ELSE Pin(q * y + ((r * y) \div Scale))

FMul(a, b) ==
  IF IsNaN(a) \/ IsNaN(b) THEN NaN
  ELSE IF IsInf(a) \/ IsInf(b)
       THEN (IF a = 0 \/ b = 0 THEN NaN
             ELSE IF Sgn(a) * Sgn(b) > 0 THEN PInf ELSE NInf)
  ELSE Sgn(a) * Sgn(b) * MulMag(IAbs(a), IAbs(b))

FDiv(a, b) ==
  IF IsNaN(a) \/ IsNaN(b) THEN NaN
  ELSE IF IsInf(a)
       THEN (IF IsInf(b) THEN NaN
             ELSE IF Sgn(a) * (IF b < 0 THEN -1 ELSE 1) > 0 THEN PInf ELSE NInf)
  ELSE IF IsInf(b) THEN 0
  ELSE IF b = 0
       THEN (IF a = 0 THEN NaN ELSE IF a > 0 THEN PInf ELSE NInf)
  ELSE Pin(TDiv(a * Scale, b))

\* a < b and a > b on doubles: false when either side is NaN.
FLt(a, b) == ~IsNaN(a) /\ ~IsNaN(b) /\ a < b
FGt(a, b) == ~IsNaN(a) /\ ~IsNaN(b) /\ a > b
\* != as it would be if every residual counted as nonzero.
FNe_always(a, b) == TRUE

\* a != b on doubles: true when either side is NaN.
FNe(a, b) == IsNaN(a) \/ IsNaN(b) \/ a # b

\* a <= b as a statement about numbers (false for NaN), used by properties.
FLe(a, b) == ~IsNaN(a) /\ ~IsNaN(b) /\ a <= b

\* The double nearest an int (int -> double conversion).
FromInt(n) == Pin(n * Scale)

\* The integer square root of n >= 0, by bisection on [lo, hi].  Here and
\* below a value the code holds in a local is bound once, as the element of
\* a singleton set, and not recomputed where it is used.
RECURSIVE ISqrtIn(_, _, _)
ISqrtIn(n, lo, hi) ==
  IF lo >= hi THEN lo
  ELSE CHOOSE r \in
         { IF mid * mid <= n THEN ISqrtIn(n, mid, hi)
           ELSE ISqrtIn(n, lo, mid - 1) : mid \in { (lo + hi + 1) \div 2 } } :
         TRUE

\* sqrt(x): NaN for a negative argument.
FSqrt(x) ==
  IF IsNaN(x) THEN NaN
  ELSE IF x = PInf THEN PInf
  ELSE IF x < 0 THEN NaN
  ELSE CHOOSE r \in { ISqrtIn(n, 0, 46340) : n \in { x * Scale } } : TRUE

\* pow(b, e) for the exponents 1.0 and 0.5 (C99 rules for the special
\* values: pow(-inf, 0.5) = +inf, pow(x < 0, 0.5) = NaN).
Pow(b, e) ==
  IF IsNaN(b) THEN NaN
  ELSE IF e = Scale THEN b
  ELSE IF IsInf(b) THEN PInf
  ELSE FSqrt(b)

RECURSIVE SumSeq(_)
SumSeq(s) == IF s = << >> THEN 0 ELSE FAdd(Head(s), SumSeq(Tail(s)))

(***************************************************************************)
(* Bounds of the model                                                     *)
(***************************************************************************)

\* isConverged calls in one run of the ConvergenceTest specification.
MaxCalls == 2
\* isConverged calls in one run of the running-average specification.
MaxRunCalls == 12
\* Largest configured Minimum Iterations / Maximum Iterations, and largest
\* iteration index passed to isConverged.
MaxIterCfg == 2

(***************************************************************************)
(* ConvergenceTest                                                         *)
(***************************************************************************)

VARIABLES
  conTests,       \* the criteria instantiated by the constructor (a set of kinds)
  comboType,      \* "AND" | "OR"
  minIterations,
  maxIterations,
  conValue,       \* the threshold of every criterion
  f0,             \* baseline of RelDeltaF and RelRunningDF, set by initNorm
  p0,             \* baseline of RelDeltaP, set by initNorm
  normCalls,      \* number of initNorm calls so far
  absRun,         \* AbsRunningDF: [dF |-> history, runningDF |-> sum]
  relRun,         \* RelRunningDF: [dF |-> history, runningDF |-> sum]
  lastCall,       \* the last isConverged call: arguments, outcomes, verdict
  nCalls          \* number of isConverged calls so far

ctVars == << conTests, comboType, minIterations, maxIterations, conValue,
             f0, p0, normCalls, absRun, relRun, lastCall, nCalls >>

cfgVars == << conTests, comboType, minIterations, maxIterations, conValue >>

\* Construction order of the criteria (the order of the push_backs).
KindOrder == << "RelDeltaP", "AbsDeltaP", "RelDeltaF", "AbsDeltaF",
                "RelRunningDF", "AbsRunningDF" >>
Kinds == { KindOrder[i] : i \in 1..Len(KindOrder) }

\* Window of the running averages.
nave == 10

NoCall == [ called |-> FALSE, iter |-> 0, delta_f |-> 0, delta_p |-> 0,
            results |-> << >>, evaluated |-> FALSE, converged |-> FALSE ]

EmptyRun == [ dF |-> << >>, runningDF |-> 0 ]

\* ConvergenceTest::ConvergenceTest: the criteria present in the parameter
\* list are instantiated, Combo Type defaults to OR, Minimum Iterations to 0.
ConvergenceTest_ctor(tests, combo, minIt, maxIt, cv) ==
  /\ conTests = tests
  /\ comboType = combo
  /\ minIterations = minIt
  /\ maxIterations = maxIt
  /\ conValue = cv
  /\ f0 = 0
  /\ p0 = 0
  /\ normCalls = 0
  /\ absRun = EmptyRun
  /\ relRun = EmptyRun
  /\ lastCall = NoCall
  /\ nCalls = 0

\* initNorm as it would be if the call were left out.
ConvergenceTest_initNorm_skipped(f, pnorm) ==
  /\ f0' = f0
  /\ p0' = p0
  /\ normCalls' = normCalls

\* ConvergenceTest::initNorm: every criterion stores its baseline.
ConvergenceTest_initNorm(f, pnorm) ==
  /\ f0' = f
  /\ p0' = pnorm
  /\ normCalls' = normCalls + 1

\* --- the criteria: passed(delta_f, delta_p) ---

AbsDeltaP_passed(delta_p) == FLt(FAbs(delta_p), conValue)

AbsDeltaF_passed(delta_f) == FLt(FAbs(delta_f), conValue)

\* RelDeltaP::passed as it would be if a zero baseline passed.
RelDeltaP_passed_noguard(delta_p) ==
  IF FNe(p0, 0) THEN FLt(FAbs(FDiv(delta_p, p0)), conValue) ELSE TRUE

\* RelDeltaP::passed and RelDeltaF::passed: (p0 != 0.0) ? ... : false.
RelDeltaP_passed(delta_p) ==
  IF FNe(p0, 0) THEN FLt(FAbs(FDiv(delta_p, p0)), conValue) ELSE FALSE

RelDeltaF_passed(delta_f) ==
  IF FNe(f0, 0) THEN FLt(FAbs(FDiv(delta_f, f0)), conValue) ELSE FALSE

\* AbsRunningDF::passed: the new history and running sum.  The sample taken
\* out of the sum is *(dF.end()-nave), the element at 0-based index size-nave.
AbsRunningDF_update(delta_f) ==
  LET dF1 == Append(absRun.dF, delta_f)
      sum1 == FAdd(absRun.runningDF, delta_f)
      sum2 == IF Len(dF1) > nave
              THEN FSub(sum1, dF1[Len(dF1) - nave + 1])
              ELSE sum1
  IN [ dF |-> dF1, runningDF |-> sum2 ]

\* The quantity AbsRunningDF::passed compares with conValue: runningDF.
AbsRunningDF_compared(run) == run.runningDF

AbsRunningDF_passed(delta_f) ==
  FLt(AbsRunningDF_compared(AbsRunningDF_update(delta_f)), conValue)

\* RelRunningDF::passed: the sample taken out is dF[lastVal-nave], the element
\* at 0-based index size-1-nave.
RelRunningDF_update(delta_f) ==
  LET dF1 == Append(relRun.dF, delta_f)
      sum1 == FAdd(relRun.runningDF, delta_f)
      sum2 == IF Len(dF1) > nave
              THEN FSub(sum1, dF1[Len(dF1) - nave])
              ELSE sum1
  IN [ dF |-> dF1, runningDF |-> sum2 ]

RelRunningDF_nvals(delta_f) ==
  LET n == Len(relRun.dF) + 1 IN IF n > nave THEN nave ELSE n

RelRunningDF_passed(delta_f) ==
  IF FNe(f0, 0)
  THEN FLt(FDiv(FAbs(FDiv(RelRunningDF_update(delta_f).runningDF, f0)),
                FromInt(RelRunningDF_nvals(delta_f))),
           conValue)
  ELSE FALSE

\* The quantity RelRunningDF::passed has compared with conValue, from the
\* criterion after the call: fabs(runningDF/f0)/nvals, nvals the size of the
\* history capped at nave.
RelRunningDF_compared(run) ==
  LET n == Len(run.dF)
      nvals == IF n > nave THEN nave ELSE n
  IN FDiv(FAbs(FDiv(run.runningDF, f0)), FromInt(nvals))

Passed(kind, delta_f, delta_p) ==
  CASE kind = "RelDeltaP" -> RelDeltaP_passed(delta_p)
    [] kind = "AbsDeltaP" -> AbsDeltaP_passed(delta_p)
    [] kind = "RelDeltaF" -> RelDeltaF_passed(delta_f)
    [] kind = "AbsDeltaF" -> AbsDeltaF_passed(delta_f)
    [] kind = "RelRunningDF" -> RelRunningDF_passed(delta_f)
    [] kind = "AbsRunningDF" -> AbsRunningDF_passed(delta_f)

\* std::vector<bool> results: one outcome per instantiated criterion, in
\* construction order.
Results(delta_f, delta_p) ==
  LET active == SelectSeq(KindOrder, LAMBDA k : k \in conTests)
  IN [ i \in 1..Len(active) |-> Passed(active[i], delta_f, delta_p) ]

\* A combination that would need a passing criterion under either combinator.
Combine_somepassed(results) ==
  \E i \in 1..Len(results) : results[i]

\* The combinator: find(results, false) == end  /  find(results, true) != end.
Combine(results) ==
  IF comboType = "AND" THEN \A i \in 1..Len(results) : results[i]
  ELSE IF comboType = "OR" THEN \E i \in 1..Len(results) : results[i]
  ELSE FALSE

\* Variants of the verdict: without the minimum-iteration guard; with the
\* limit reached only past maxIterations; with the guard holding through
\* iter = minIterations.
Verdict_nomin(iter, combined) ==
  LET c1 == combined
  IN IF iter >= maxIterations /\ ~c1 THEN TRUE ELSE c1

Verdict_strictmax(iter, combined) ==
  LET c1 == IF iter < minIterations THEN FALSE ELSE combined
  IN IF iter > maxIterations /\ ~c1 THEN TRUE ELSE c1

Verdict_mininclusive(iter, combined) ==
  LET c1 == IF iter <= minIterations THEN FALSE ELSE combined
  IN IF iter >= maxIterations /\ ~c1 THEN TRUE ELSE c1

\* The minimum-iteration guard and the iteration limit, applied in this order.
Verdict(iter, combined) ==
  LET c1 == IF iter < minIterations THEN FALSE ELSE combined
  IN IF iter >= maxIterations /\ ~c1 THEN TRUE ELSE c1

\* isConverged as it would be without the early return.
EarlyReturn_never(iter) == FALSE

\* if(iter == 0) return false;

EarlyReturn(iter) == iter = 0

\* ConvergenceTest::isConverged(delta_f, delta_p, iter, myPID): the verdict,
\* the evaluation of every criterion with its effect on the running
\* histories, and the record of the call.
ConvergenceTest_isConverged(delta_f, delta_p, iter) ==
  LET early == EarlyReturn(iter)
      results == IF early THEN << >> ELSE Results(delta_f, delta_p)
      verdict == IF early THEN FALSE ELSE Verdict(iter, Combine(results))
  IN /\ absRun' = IF ~early /\ "AbsRunningDF" \in conTests
                  THEN AbsRunningDF_update(delta_f) ELSE absRun
     /\ relRun' = IF ~early /\ "RelRunningDF" \in conTests
                  THEN RelRunningDF_update(delta_f) ELSE relRun
     /\ lastCall' = [ called |-> TRUE, iter |-> iter, delta_f |-> delta_f,
                      delta_p |-> delta_p, results |-> results,
                      evaluated |-> ~early, converged |-> verdict ]
     /\ nCalls' = nCalls + 1

(***************************************************************************)
(* Optimizer_OC                                                            *)
(***************************************************************************)

\* Number of design variables on the partition (GetNumOptDofs).
NumDofs == 2
\* Largest configured Maximum Iterations of the volume enforcement.
MaxVolIter == 2

Dofs == 1..NumDofs

\* Topology: getBounds() and getInitialValue().
minDensity == 10
maxDensity == 1000
initialValue == 500

\* Newton iterations allowed after the bracketing phase.
newtonExtraIters == 10

VARIABLES
  pc,                  \* position of the optimizer in Initialize / Optimize
  ret,                 \* call site the running computeUpdatedTopology returns to
  solverInterface,     \* "NULL" | "bound"
  constraintGradient,  \* "None" | "Adjoint"
  useNewtonSearch,
  volMaxIter,
  volConvTol,
  volAccpTol,
  volConstraint,
  minVolume,
  maxVolume,
  moveLimit,
  stabExponent,
  optVolume,
  p, p_last, dfdp, dvdp, dgdp,
  f, f_last, g, g_last,
  iter,
  volConstraint_last,
  dgdv_vals,
  \* locals of computeUpdatedTopology
  v1, v2, residRatio, niters, lambda, epsilon, newtonMaxIters, converged,
  vol

ocCfgVars == << solverInterface, constraintGradient, useNewtonSearch,
                volMaxIter, volConvTol, volAccpTol, minVolume, maxVolume,
                moveLimit, stabExponent >>
ocVecVars == << p, p_last, dfdp, dvdp, dgdp >>
ocScalVars == << f, f_last, g, g_last >>
ocLoopVars == << iter, volConstraint_last, dgdv_vals >>
subVars == << v1, v2, residRatio, niters, lambda, epsilon, newtonMaxIters,
              converged, vol >>
ocVars == << pc, ret, ocCfgVars, volConstraint, optVolume, ocVecVars,
             ocScalVars, ocLoopVars, subVars >>

\* The factory, the NLopt adapter and the partitions of a parallel run
\* (declared further down).
VARIABLES
  package,      \* the configured Package name
  build,        \* the optional packages compiled in (ATO_USES_NLOPT, ATO_USES_DOTK)
  backend,      \* the class OptimizerFactory::create instantiated, or "none"
  numProc,      \* comm->NumProc()
  optMethod,    \* Optimizer_NLopt::_optMethod
  opt,          \* the nlopt handle: "NULL" or an algorithm
  maxeval,      \* the evaluation limit handed to the library
  tolerance,    \* the constraint tolerance handed to the library
  nIterations,  \* Optimizer_NLopt::_nIterations
  xCur,         \* the design of the last objective callback
  xPrev,        \* the design of the callback before it
  fPrev,        \* the objective before the last callback
  forceStop,    \* the value given to nlopt_set_force_stop, 0 when not stopped
  errorcode,    \* the value nlopt_optimize returned
  parPc,        \* per partition: position in Optimize
  parG,         \* per partition: g returned by the last Compute
  parIter,      \* per partition: iter
  parLog,       \* per partition: the collective reductions issued so far
  parVerdict,   \* the verdicts of isConverged, by iteration
  sch           \* the SchwarzAlternating solver: its members and position

facVars == << package, build, backend >>
nlVars == << numProc, optMethod, opt, maxeval, tolerance, nIterations, xCur,
             xPrev, fPrev, forceStop, errorcode >>
parVars == << parPc, parG, parIter, parLog, parVerdict >>
extVars == << facVars, nlVars, parVars, sch >>

vars == << ctVars, ocVars, extVars >>

\* An unallocated array (a NULL pointer).
Null == << >>

Fill(x) == [ i \in Dofs |-> x ]

\* The locals of computeUpdatedTopology outside a call.
SubIdle ==
  /\ v1 = 0 /\ v2 = 0 /\ residRatio = 0 /\ niters = 0 /\ lambda = 0
  /\ epsilon = 0 /\ newtonMaxIters = 0 /\ converged = FALSE /\ vol = 0

SubReset ==
  /\ v1' = 0 /\ v2' = 0 /\ residRatio' = 0 /\ niters' = 0 /\ lambda' = 0
  /\ epsilon' = 0 /\ newtonMaxIters' = 0 /\ converged' = FALSE /\ vol' = 0

\* Optimizer_OC::Optimizer_OC: the pointers are NULL, the scalars 0, the
\* parameters are read from the Volume Enforcement and Constraint Enforcement
\* lists (Acceptable Tolerance defaults to the convergence tolerance).
OptimizerOC_ctor(iface, cg, newton, maxIt, cTol, aTol, target, minV, maxV, ml, stab) ==
  /\ pc = "constructed"
  /\ ret = "none"
  /\ solverInterface = iface
  /\ constraintGradient = cg
  /\ useNewtonSearch = newton
  /\ volMaxIter = maxIt
  /\ volConvTol = cTol
  /\ volAccpTol = aTol
  /\ volConstraint = target
  /\ minVolume = minV
  /\ maxVolume = maxV
  /\ moveLimit = ml
  /\ stabExponent = stab
  /\ optVolume = 0
  /\ p = Null /\ p_last = Null /\ dfdp = Null /\ dvdp = Null /\ dgdp = Null
  /\ f = 0 /\ f_last = 0 /\ g = 0 /\ g_last = 0
  /\ iter = 0 /\ volConstraint_last = 0 /\ dgdv_vals = << >>
  /\ SubIdle

\* Initialize as it would be if the SolverInterface were tested after the
\* allocations.
OC_Initialize_latetest(refVolume) ==
  /\ pc = "constructed"
  /\ pc' = IF solverInterface = "NULL" THEN "fatal" ELSE "initialized"
  /\ p' = Fill(initialValue)
  /\ p_last' = Fill(0)
  /\ dfdp' = Fill(0)
  /\ dvdp' = Fill(0)
  /\ dgdp' = IF constraintGradient # "None" THEN Fill(0) ELSE Null
  /\ optVolume' = IF solverInterface = "NULL" THEN optVolume ELSE refVolume
  /\ UNCHANGED << ret, ocCfgVars, volConstraint, ocScalVars, ocLoopVars,
                  subVars, ctVars >>
  /\ UNCHANGED extVars

\* Optimizer_OC::Initialize.  refVolume is what ComputeVolume(_optVolume)
\* returns.
OC_Initialize(refVolume) ==
  /\ pc = "constructed"
  /\ IF solverInterface = "NULL"
     THEN /\ pc' = "fatal"
          /\ UNCHANGED << optVolume, ocVecVars >>
     ELSE /\ pc' = "initialized"
          /\ p' = Fill(initialValue)
          /\ p_last' = Fill(0)
          /\ dfdp' = Fill(0)
          /\ dvdp' = Fill(0)
          /\ dgdp' = IF constraintGradient # "None" THEN Fill(0) ELSE Null
          /\ optVolume' = refVolume
  /\ UNCHANGED << ret, ocCfgVars, volConstraint, ocScalVars, ocLoopVars,
                  subVars, ctVars >>
  /\ UNCHANGED extVars

\* Optimizer::computeNorm / computeDiffNorm on one partition: the square root
\* of the summed squares, 0 when the sum is not > 0.
SumSquares(x) ==
  CHOOSE r \in { SumSeq(sq) : sq \in { [ i \in Dofs |-> FMul(x[i], x[i]) ] } } :
    TRUE

computeNorm(x) ==
  CHOOSE r \in { IF FGt(gnorm, 0) THEN FSqrt(gnorm) ELSE 0 :
                   gnorm \in { SumSquares(x) } } : TRUE

computeDiffNorm(x, y) ==
  CHOOSE r \in { computeNorm(d) : d \in { [ i \in Dofs |-> FSub(x[i], y[i]) ] } } :
    TRUE

\* --- computeUpdatedTopology ---

offset == FSub(minDensity, FMul(10, FSub(maxDensity, minDensity)))

\* The move limit: p_old + fabs(dval)/dval*_moveLimit when |dval| > _moveLimit.
LimitChange(p_old, p_new) ==
  CHOOSE r \in
    { IF FGt(FAbs(dval), moveLimit)
      THEN FAdd(p_old, FMul(FDiv(FAbs(dval), dval), moveLimit))
      ELSE p_new : dval \in { FSub(p_new, p_old) } } :
    TRUE

\* The bounds: if(p_new < minDensity) ...; if(p_new > maxDensity) ...
EnforceLimits(p_new) ==
  LET a == IF FLt(p_new, minDensity) THEN minDensity ELSE p_new
  IN IF FGt(a, maxDensity) THEN maxDensity ELSE a

\* The optimality-criteria update of entry i for the multiplier lam, before
\* the move limit and the bounds.
Unclamped(i, lam) ==
  CHOOSE r \in
    { FAdd(scaled, off) :
        scaled \in { FMul(FSub(p_last[i], off), pw) :
                       off \in { offset },
                       pw \in { Pow(be, stabExponent) :
                                  be \in { FDiv(FDiv(FNeg(dfdp[i]), dvdp[i]), lam) } } },
        off \in { offset } } :
    TRUE

UpdatedTopology(lam) ==
  [ i \in Dofs |->
      CHOOSE r \in
        { EnforceLimits(l) :
            l \in { LimitChange(p_last[i], u) : u \in { Unclamped(i, lam) } } } :
        TRUE ]

Target == FMul(volConstraint, optVolume)

HasNaN(x) == \E i \in Dofs : IsNaN(x[i])

\* solverInterface->ComputeVolume(p, vol): the volumes the simulation may
\* return for the design x, drawn around the target so that every case of the
\* search occurs; the volume of a design with a NaN entry is NaN.
Volumes(x, resid) ==
  IF HasNaN(x) THEN { NaN }
  ELSE IF IsFin(Target) THEN { FAdd(Target, r) : r \in resid }
  ELSE { FAdd(optVolume, r) : r \in resid }

Residual(v) == FSub(v, Target)

OutsideConvTol(v) == FGt(FAbs(Residual(v)), FMul(volConvTol, optVolume))

\* Entry of computeUpdatedTopology from the call site r: the sums of the
\* sensitivities and the initial bracket.
Sub_Call(r) ==
  /\ ret' = r
  /\ pc' = "bisect"
  /\ v1' = 0
  /\ v2' = FDiv(FMul(-10 * Scale, SumSeq(dfdp')), SumSeq(dvdp'))
  /\ residRatio' = 0
  /\ niters' = 0
  /\ lambda' = 0
  /\ epsilon' = 0
  /\ newtonMaxIters' = 0
  /\ converged' = FALSE
  /\ vol' = 0

\* A first do-while that would test the counter before incrementing it.
Sub_Bisect_onemore(resid) ==
  /\ pc = "bisect"
  /\ \E vmid \in { FDiv(FAdd(v2, v1), 2 * Scale) } :
     \E x \in { UpdatedTopology(vmid) } :
        /\ p' = x
        /\ \E v \in Volumes(x, resid) :
             LET prevResidual == Residual(0)
                 newResidual == Residual(v)
                 again == niters + 1 <= volMaxIter /\ OutsideConvTol(v)
             IN /\ vol' = v
                /\ niters' = niters + 1
                /\ IF FGt(newResidual, 0)
                   THEN /\ v1' = vmid
                        /\ v2' = v2
                        /\ residRatio' = IF useNewtonSearch
                                         THEN FDiv(newResidual, prevResidual)
                                         ELSE residRatio
                        /\ pc' = IF useNewtonSearch THEN "newton_begin"
                                 ELSE IF again THEN "bisect" ELSE "check"
                   ELSE /\ v2' = vmid
                        /\ v1' = v1
                        /\ residRatio' = residRatio
                        /\ pc' = IF again THEN "bisect"
                                 ELSE IF useNewtonSearch THEN "newton_begin"
                                 ELSE "check"
  /\ UNCHANGED << ret, ocCfgVars, volConstraint, optVolume, p_last, dfdp,
                  dvdp, dgdp, ocScalVars, ocLoopVars, lambda, epsilon,
                  newtonMaxIters, converged, ctVars >>
  /\ UNCHANGED extVars


\* One pass of the first do-while: the design at the midpoint, its volume,
\* and the new bracket.  With Newton search the first positive residual
\* leaves the loop.
Sub_Bisect(resid) ==
  /\ pc = "bisect"
  /\ \E vmid \in { FDiv(FAdd(v2, v1), 2 * Scale) } :
     \E x \in { UpdatedTopology(vmid) } :
        /\ p' = x
        /\ \E v \in Volumes(x, resid) :
             LET prevResidual == Residual(0)
                 newResidual == Residual(v)
                 again == niters + 1 < volMaxIter /\ OutsideConvTol(v)
             IN /\ vol' = v
                /\ niters' = niters + 1
                /\ IF FGt(newResidual, 0)
                   THEN /\ v1' = vmid
                        /\ v2' = v2
                        /\ residRatio' = IF useNewtonSearch
                                         THEN FDiv(newResidual, prevResidual)
                                         ELSE residRatio
                        /\ pc' = IF useNewtonSearch THEN "newton_begin"
                                 ELSE IF again THEN "bisect" ELSE "check"
                   ELSE /\ v2' = vmid
                        /\ v1' = v1
                        /\ residRatio' = residRatio
                        /\ pc' = IF again THEN "bisect"
                                 ELSE IF useNewtonSearch THEN "newton_begin"
                                 ELSE "check"
  /\ UNCHANGED << ret, ocCfgVars, volConstraint, optVolume, p_last, dfdp,
                  dvdp, dgdp, ocScalVars, ocLoopVars, lambda, epsilon,
                  newtonMaxIters, converged, ctVars >>
  /\ UNCHANGED extVars

\* lambda*1e-5
Times1em5(x) ==
  IF IsNaN(x) THEN NaN ELSE IF IsInf(x) THEN x ELSE TDiv(x, 100000)

\* Entry of the Newton phase: the first estimate of the multiplier and the
\* finite-difference step, computed once; the phase is skipped unless lambda > 0, and a skipped phase has not converged.
Sub_NewtonBegin ==
  /\ pc = "newton_begin"
  /\ LET lam == FDiv(FSub(FMul(residRatio, v2), v1), FSub(residRatio, Scale))
     IN /\ lambda' = lam
        /\ epsilon' = Times1em5(lam)
        /\ newtonMaxIters' = niters + newtonExtraIters
        /\ IF FGt(lam, 0)
           THEN pc' = "newton" /\ niters' = niters
           ELSE pc' = "fallback" /\ niters' = 0
  /\ UNCHANGED << ret, ocCfgVars, volConstraint, optVolume, ocVecVars,
                  ocScalVars, ocLoopVars, v1, v2, residRatio, converged, vol,
                  ctVars >>
  /\ UNCHANGED extVars

\* One pass of the Newton do-while.
Sub_Newton(resid) ==
  /\ pc = "newton"
  /\ \E x0 \in { UpdatedTopology(lambda) },
        x1 \in { UpdatedTopology(FAdd(lambda, epsilon)) } :
       \E va \in Volumes(x0, resid), vb \in Volumes(x1, resid) :
        \E fa \in { Residual(va) }, fb \in { Residual(vb) } :
        \E df \in { FSub(fb, fa) }, ef \in { FMul(epsilon, fa) } :
        \E step \in { FDiv(ef, df) } :
             IF FLt(FAbs(fa), FMul(volConvTol, optVolume))
             THEN /\ converged' = TRUE
                  /\ p' = x0 /\ vol' = va
                  /\ pc' = "check"
                  /\ UNCHANGED << lambda, niters >>
             ELSE /\ converged' = FALSE
                  /\ p' = x1 /\ vol' = vb
                  /\ IF ~FNe(df, 0)
                     THEN /\ pc' = "fallback"
                          /\ niters' = 0
                          /\ lambda' = lambda
                     ELSE /\ lambda' = FSub(lambda, step)
                          /\ IF niters + 1 < newtonMaxIters
                             THEN pc' = "newton" /\ niters' = niters + 1
                             ELSE pc' = "fallback" /\ niters' = 0
  /\ UNCHANGED << ret, ocCfgVars, volConstraint, optVolume, p_last, dfdp,
                  dvdp, dgdp, ocScalVars, ocLoopVars, v1, v2, residRatio,
                  epsilon, newtonMaxIters, ctVars >>
  /\ UNCHANGED extVars

\* A fallback that would bisect around the multiplier the Newton phase left.
Sub_Fallback_fromlambda(resid) ==
  /\ pc = "fallback"
  /\ \E vmid \in { lambda } :
     \E x \in { UpdatedTopology(vmid) } :
        /\ p' = x
        /\ \E v \in Volumes(x, resid) :
             /\ vol' = v
             /\ niters' = niters + 1
             /\ IF FGt(Residual(v), 0)
                THEN v1' = vmid /\ v2' = v2
                ELSE v2' = vmid /\ v1' = v1
             /\ pc' = IF niters + 1 < volMaxIter /\ OutsideConvTol(v)
                      THEN "fallback" ELSE "check"
  /\ UNCHANGED << ret, ocCfgVars, volConstraint, optVolume, p_last, dfdp,
                  dvdp, dgdp, ocScalVars, ocLoopVars, residRatio, lambda,
                  epsilon, newtonMaxIters, converged, ctVars >>
  /\ UNCHANGED extVars

\* One pass of the bisection that follows a Newton phase that did not
\* converge; niters was set to 0 on entry.
Sub_Fallback(resid) ==
  /\ pc = "fallback"
  /\ \E vmid \in { FDiv(FAdd(v2, v1), 2 * Scale) } :
     \E x \in { UpdatedTopology(vmid) } :
        /\ p' = x
        /\ \E v \in Volumes(x, resid) :
             /\ vol' = v
             /\ niters' = niters + 1
             /\ IF FGt(Residual(v), 0)
                THEN v1' = vmid /\ v2' = v2
                ELSE v2' = vmid /\ v1' = v1
             /\ pc' = IF niters + 1 < volMaxIter /\ OutsideConvTol(v)
                      THEN "fallback" ELSE "check"
  /\ UNCHANGED << ret, ocCfgVars, volConstraint, optVolume, p_last, dfdp,
                  dvdp, dgdp, ocScalVars, ocLoopVars, residRatio, lambda,
                  epsilon, newtonMaxIters, converged, ctVars >>
  /\ UNCHANGED extVars

\* The condition of the final TEUCHOS_TEST_FOR_EXCEPTION.
EnforcementFailed ==
  FGt(FAbs(Residual(vol)), FMul(volAccpTol, optVolume))

\* The final check: the exception, or the return to the caller.
Sub_Check ==
  /\ pc = "check"
  /\ pc' = IF EnforcementFailed THEN "fatal" ELSE "returned"
  /\ UNCHANGED << ret, ocCfgVars, volConstraint, optVolume, ocVecVars,
                  ocScalVars, ocLoopVars, subVars, ctVars >>
  /\ UNCHANGED extVars

\* --- Optimizer_OC::Optimize ---

\* The probe step dv and the fallback step of the no-gradient mode (0.001).
dvProbe == 1
deltavFallback == 1

\* The step limit and the bounds on the volume target: the step is cut to
\* 0.1*_volConstraint, the new target to [_minVolume, _maxVolume].
LimitStep(vc, deltav) ==
  LET dvolLimit == FMul(100, vc)
  IN IF FGt(FAbs(deltav), dvolLimit)
     THEN FMul(FDiv(deltav, FAbs(deltav)), dvolLimit)
     ELSE deltav

ClampTarget(vc) ==
  LET a == IF FLt(vc, minVolume) THEN minVolume ELSE vc
  IN IF FGt(a, maxVolume) THEN maxVolume ELSE a

UpdatedTarget(vc, deltav) == ClampTarget(FAdd(vc, LimitStep(vc, deltav)))

\* The average of the recorded slopes.
MeanSlope(vals) == FDiv(SumSeq(vals), FromInt(Len(vals)))

\* What solverInterface->Compute and ComputeVolume(p, vol, dvdp) return.
ComputeOutputs(fs, dfs, gs, dgs, dvs) ==
  /\ f' \in fs
  /\ g' \in gs
  /\ dfdp' \in dfs
  /\ dgdp' \in (IF constraintGradient = "Adjoint" THEN dgs ELSE { dgdp })
  /\ dvdp' \in dvs

\* Optimize up to the entry of the first computeUpdatedTopology.
OC_OptimizeBegin(fs, dfs, gs, dgs, dvs) ==
  /\ pc = "initialized"
  /\ ComputeOutputs(fs, dfs, gs, dgs, dvs)
  /\ p_last' = p
  /\ p' = p
  /\ Sub_Call("first")
  /\ UNCHANGED << ocCfgVars, volConstraint, optVolume, f_last, g_last,
                  ocLoopVars, ctVars >>
  /\ UNCHANGED extVars

\* After the first computeUpdatedTopology: initNorm and the loop variables.
OC_AfterFirst ==
  /\ pc = "returned" /\ ret = "first"
  /\ ConvergenceTest_initNorm(f, computeNorm(p))
  /\ iter' = 0
  /\ volConstraint_last' = volConstraint
  /\ dgdv_vals' = << >>
  /\ pc' = "loop"
  /\ ret' = "none"
  /\ SubReset
  /\ UNCHANGED << ocCfgVars, volConstraint, optVolume, ocVecVars, ocScalVars,
                  cfgVars, absRun, relRun, lastCall, nCalls >>
  /\ UNCHANGED extVars

\* The no-gradient estimate of the step: the slope between this iteration and
\* the remembered target, averaged over the last 10 samples.
NoGradientSlopes ==
  LET s1 == Append(dgdv_vals,
                   FDiv(FSub(g', g_last'),
                        FSub(volConstraint, volConstraint_last)))
  IN IF Len(s1) > 10 THEN Tail(s1) ELSE s1

\* The head of the loop body, up to the entry of computeUpdatedTopology: the
\* probe call in the Adjoint mode with g != 0, else the call of line 338
\* after the adaptation of the target.
OC_LoopHead(fs, dfs, gs, dgs, dvs) ==
  /\ pc = "loop"
  /\ f_last' = f
  /\ g_last' = g
  /\ ComputeOutputs(fs, dfs, gs, dgs, dvs)
  /\ p_last' = p
  /\ p' = p
  /\ IF FNe(g', 0)
     THEN IF constraintGradient = "Adjoint"
          THEN /\ volConstraint' = FAdd(volConstraint, dvProbe)
               /\ UNCHANGED ocLoopVars
               /\ Sub_Call("probe")
          ELSE /\ IF FNe(volConstraint, volConstraint_last)
                  THEN /\ dgdv_vals' = NoGradientSlopes
                       /\ volConstraint' =
                            UpdatedTarget(volConstraint,
                              FDiv(FNeg(g'), MeanSlope(dgdv_vals')))
                  ELSE /\ dgdv_vals' = dgdv_vals
                       /\ volConstraint' =
                            UpdatedTarget(volConstraint, deltavFallback)
               /\ volConstraint_last' = volConstraint
               /\ iter' = iter
               /\ Sub_Call("main")
     ELSE /\ UNCHANGED << volConstraint, ocLoopVars >>
          /\ Sub_Call("main")
  /\ UNCHANGED << ocCfgVars, optVolume, ctVars >>
  /\ UNCHANGED extVars

\* After the probe call: the target is restored, the slope estimated from
\* dgdp, the target adapted, and computeUpdatedTopology entered again.
OC_AfterProbe ==
  /\ pc = "returned" /\ ret = "probe"
  /\ LET vc == FSub(volConstraint, dvProbe)
         dg == SumSeq([ i \in Dofs |-> FMul(dgdp[i], FSub(p[i], p_last[i])) ])
         dgdv == FDiv(dg, dvProbe)
         deltav == FDiv(FNeg(g), dgdv)
     IN /\ volConstraint_last' = vc
        /\ volConstraint' = UpdatedTarget(vc, deltav)
  /\ UNCHANGED << ocCfgVars, optVolume, ocVecVars, ocScalVars, iter,
                  dgdv_vals, ctVars >>
  /\ Sub_Call("main")
  /\ UNCHANGED extVars

\* After the call of line 338: the deltas, the convergence check, iter++.
OC_AfterMain ==
  /\ pc = "returned" /\ ret = "main"
  /\ \E delta_f \in { FSub(f, f_last) },
        delta_p \in { computeDiffNorm(p, p_last) } :
       ConvergenceTest_isConverged(delta_f, delta_p, iter)
  /\ iter' = iter + 1
  /\ pc' = IF lastCall'.converged THEN "done" ELSE "loop"
  /\ ret' = "none"
  /\ SubReset
  /\ UNCHANGED << ocCfgVars, volConstraint, optVolume, ocVecVars, ocScalVars,
                  volConstraint_last, dgdv_vals, cfgVars, f0, p0, normCalls >>
  /\ UNCHANGED extVars

(***************************************************************************)
(* OptimizerFactory                                                        *)
(***************************************************************************)

\* create as it would be with OC as the default backend.
OptimizerFactory_create_default(pkg, bld) ==
  IF pkg = "Pareto" THEN "Pareto"
  ELSE IF "NLopt" \in bld /\ pkg = "NLopt" THEN "NLopt"
  ELSE IF "DOTk" \in bld /\ pkg = "DOTk" THEN "DOTk"
  ELSE "OC"

\* OptimizerFactory::create: the class instantiated for the Package name pkg
\* in a build with the optional packages bld; "none" when the name reaches
\* the final else and the exception is thrown.
OptimizerFactory_create(pkg, bld) ==
  IF pkg = "OC" THEN "OC"
  ELSE IF pkg = "Pareto" THEN "Pareto"
  ELSE IF "NLopt" \in bld /\ pkg = "NLopt" THEN "NLopt"
  ELSE IF "DOTk" \in bld /\ pkg = "DOTk" THEN "DOTk"
  ELSE "none"

\* The Schwarz solver outside its specification.
SchwarzIdle == sch = [ pc |-> "none" ]

\* The adapter and the partitions outside their specifications.
NLIdle ==
  /\ numProc = 1 /\ optMethod = "" /\ opt = "NULL" /\ maxeval = 0
  /\ tolerance = 0 /\ nIterations = 0 /\ xCur = Null /\ xPrev = Null
  /\ fPrev = 0 /\ forceStop = 0 /\ errorcode = 0

ParIdle ==
  /\ parPc = << >> /\ parG = << >> /\ parIter = << >> /\ parLog = << >>
  /\ parVerdict = << >>

\* An optimizer constructed directly, without the factory.
NoFactory(kind) == package = kind /\ build = {} /\ backend = kind

(***************************************************************************)
(* Optimizer_NLopt: the adapter of the external library.  The library is   *)
(* not part of the sources: which designs it passes to the objective       *)
(* callback, how often, and what nlopt_optimize returns are choices.       *)
(***************************************************************************)

\* #define ATO_XTOL_REACHED 104
ATO_XTOL_REACHED == 104
\* The library's return code after nlopt_force_stop (nlopt.h).
NLOPT_FORCED_STOP == -5
\* The library's other return codes: failures -4..-1, successes 1..6, and 0,
\* which no version returns but the adapter accepts.
NLoptCodes == (-4)..6

\* Optimizer_NLopt::Optimizer_NLopt: the pointers are NULL, f and f_last 0,
\* _nIterations 0; the target and the method are read from the parameters.
\* The members of Optimizer_OC the adapter does not have stay at rest.
OptimizerNLopt_ctor(iface, method, np, target) ==
  /\ OptimizerOC_ctor(iface, "None", FALSE, 0, 0, 0, target, 0, 0, 0, 0)
  /\ numProc = np
  /\ optMethod = method
  /\ opt = "NULL"
  /\ maxeval = 0
  /\ tolerance = 0
  /\ nIterations = 0
  /\ xCur = Null /\ xPrev = Null /\ fPrev = 0
  /\ forceStop = 0
  /\ errorcode = 0

\* Optimizer_NLopt::Initialize.  The three tests throw in this order; the
\* constraint tolerance handed to the library is _volConvTol*_optVolume, read
\* before either has been assigned: any value of tols.  refVolume is what
\* ComputeVolume(_optVolume) returns.
NL_Initialize(refVolume, tols) ==
  /\ backend = "NLopt"
  /\ pc = "constructed"
  /\ IF \/ solverInterface = "NULL"
        \/ numProc # 1
        \/ optMethod \notin { "MMA", "CCSA" }
     THEN /\ pc' = "fatal"
          /\ UNCHANGED << opt, maxeval, tolerance, p, p_last, optVolume >>
     ELSE /\ pc' = "nl_initialized"
          /\ opt' = optMethod
          /\ maxeval' = maxIterations
          /\ tolerance' \in tols
          /\ p' = Fill(initialValue)
          /\ p_last' = Fill(0)
          /\ optVolume' = refVolume
  /\ UNCHANGED << ret, ocCfgVars, volConstraint, dfdp, dvdp, dgdp, ocScalVars,
                  ocLoopVars, subVars, ctVars, facVars, numProc, optMethod,
                  nIterations, xCur, xPrev, fPrev, forceStop, errorcode,
                  parVars, sch >>

\* Optimizer_NLopt::Optimize up to the call of nlopt_optimize: the objective
\* at the initial design and initNorm (one process: global_f is f).
NL_OptimizeBegin(fs) ==
  /\ backend = "NLopt"
  /\ pc = "nl_initialized"
  /\ f' \in fs
  /\ \E pnorm \in { computeNorm(p) } : ConvergenceTest_initNorm(f', pnorm)
  /\ pc' = "nl_running"
  /\ UNCHANGED << ret, ocCfgVars, volConstraint, optVolume, ocVecVars, f_last,
                  g, g_last, ocLoopVars, subVars, cfgVars, absRun, relRun,
                  lastCall, nCalls, extVars >>

\* The library has evaluated the objective as often as maxeval allows.
EvalsExhausted == maxeval > 0 /\ nIterations >= maxeval

\* Optimizer_NLopt::evaluate_backend for the design x the library passes:
\* f_last and p_last are overwritten, the objective is computed, the deltas
\* are formed and isConverged decides on a forced stop.  xCur, xPrev and
\* fPrev record the callbacks.
NL_Evaluate(xs, fs, cap) ==
  /\ backend = "NLopt"
  /\ pc = "nl_running"
  /\ forceStop = 0
  /\ ~EvalsExhausted
  /\ nIterations < cap
  /\ \E x \in xs :
       /\ f_last' = f
       /\ p_last' = x
       /\ f' \in fs
       /\ \E delta_f \in { FSub(f', f_last') },
             delta_p \in { computeDiffNorm(x, p_last') } :
            ConvergenceTest_isConverged(delta_f, delta_p, nIterations)
       /\ xPrev' = xCur
       /\ xCur' = x
  /\ fPrev' = f
  /\ forceStop' = IF lastCall'.converged THEN ATO_XTOL_REACHED ELSE forceStop
  /\ nIterations' = nIterations + 1
  /\ UNCHANGED << pc, ret, ocCfgVars, volConstraint, optVolume, p, dfdp, dvdp,
                  dgdp, g, g_last, ocLoopVars, subVars, cfgVars, f0, p0,
                  normCalls, facVars, numProc, optMethod, opt, maxeval,
                  tolerance, errorcode, parVars, sch >>

\* The codes nlopt_optimize may return: NLOPT_FORCED_STOP once the callback
\* has forced the stop, any other code before.
ReturnCodes(codes) ==
  IF forceStop # 0 THEN { NLOPT_FORCED_STOP } ELSE codes

\* The outcome as it would be if every negative code were fatal.
NL_Outcome_strict(code, myPID) ==
  IF code < 0 THEN "fatal" ELSE "done"

\* The outcome of Optimize for the returned code with myPID = comm->MyPID():
\* the forced stop is reported as converged on process 0, any other negative
\* code is fatal.
NL_Outcome(code, myPID) ==
  IF code = NLOPT_FORCED_STOP /\ myPID = 0 THEN "done"
  ELSE IF code < 0 THEN "fatal"
  ELSE "done"

\* nlopt_optimize returns, with the final design in p, and Optimize ends.
\* Initialize has thrown unless NumProc is 1, so this process is process 0.
NL_Return(xs, codes) ==
  /\ backend = "NLopt"
  /\ pc = "nl_running"
  /\ errorcode' \in ReturnCodes(codes)
  /\ p' \in ({ p } \cup xs)
  /\ pc' = NL_Outcome(errorcode', 0)
  /\ UNCHANGED << ret, ocCfgVars, volConstraint, optVolume, p_last, dfdp, dvdp,
                  dgdp, ocScalVars, ocLoopVars, subVars, ctVars, facVars,
                  numProc, optMethod, opt, maxeval, tolerance, nIterations,
                  xCur, xPrev, fPrev, forceStop, parVars,
                  sch >>

(***************************************************************************)
(* Specification Spec: one run of the OC optimizer, Initialize then        *)
(* Optimize, with the results of the simulation drawn from small sets.     *)
(***************************************************************************)

\* Largest configured Maximum Iterations of the Convergence Tests.
MaxOuter == 1

\* A vector with every entry a, and one whose first entry is a and the
\* others b.
First(a, b) == [ i \in Dofs |-> IF i = 1 THEN a ELSE b ]

\* Objective values and secondary-constraint residuals.
FValues == { 2000 }
GValues == { -1000, 0, 1000 }
\* Objective sensitivities: all negative; all zero; one positive entry.
DfdpValues == { Fill(-1000), Fill(0), First(500, -1000) }
\* Constraint sensitivities (Adjoint mode).
DgdpValues == { Fill(0), Fill(10) }
\* Volume sensitivities: the cell volumes.
DvdpValues == { Fill(1000) }
\* Volume residuals returned by the simulation: far below the target, inside
\* the convergence tolerance, above it on the acceptable tolerance.
ResidValues == { -300, 10, 40 }

RefVolume == FromInt(NumDofs)

\* Configured pairs (Constraint Gradient, Use Newton Search).
SearchConfigs ==
  { << "None", FALSE >>, << "None", TRUE >>, << "Adjoint", FALSE >> }

InitOC ==
  /\ \E iface \in { "NULL", "bound" }, cfg \in SearchConfigs :
       OptimizerOC_ctor(iface, cfg[1], cfg[2], MaxVolIter, 10, 20, 400, 360,
                        440, 200, 500)
  /\ ConvergenceTest_ctor({ "AbsDeltaF" }, "OR", 0, MaxOuter, 1500)
  /\ NoFactory("OC") /\ NLIdle /\ ParIdle /\ SchwarzIdle

Initialize == OC_Initialize(RefVolume)

OptimizeBegin ==
  OC_OptimizeBegin(FValues, DfdpValues, GValues, DgdpValues, DvdpValues)

LoopHead == OC_LoopHead(FValues, DfdpValues, GValues, DgdpValues, DvdpValues)

Bisect == Sub_Bisect(ResidValues)

Newton == Sub_Newton(ResidValues)

Fallback == Sub_Fallback(ResidValues)

Next ==
  \/ Initialize
  \/ OptimizeBegin
  \/ Bisect
  \/ Sub_NewtonBegin
  \/ Newton
  \/ Fallback
  \/ Sub_Check
  \/ OC_AfterFirst
  \/ LoopHead
  \/ OC_AfterProbe
  \/ OC_AfterMain

Spec == InitOC /\ [][Next]_vars

\* The optimizer is not part of the ConvergenceTest specifications.
OCUnused ==
  /\ OptimizerOC_ctor("NULL", "None", FALSE, 0, 0, 0, 0, 0, 0, 0, 0)
  /\ NoFactory("none") /\ NLIdle /\ ParIdle

(***************************************************************************)
(* Specification SpecCT: a ConvergenceTest of any configuration, seeded    *)
(* once by initNorm and then asked isConverged with arbitrary arguments.   *)
(***************************************************************************)

\* Criteria sets: every set of the four instantaneous criteria, and the
\* running-average criteria alone, together, and with all the others.
CritSets ==
  (SUBSET { "RelDeltaP", "AbsDeltaP", "RelDeltaF", "AbsDeltaF" })
    \cup { { "RelRunningDF" }, { "AbsRunningDF" },
           { "RelRunningDF", "AbsRunningDF" }, Kinds }

ComboTypes == { "AND", "OR" }
Thresholds == { 1500 }
BaselineValues == { 0, 2000 }
DeltaFValues == { -2000, 0, 1000 }
DeltaPValues == { 0, 3000 }

InitCT ==
  \E tests \in CritSets, combo \in ComboTypes,
     minIt \in 0..MaxIterCfg, maxIt \in -1..MaxIterCfg, cv \in Thresholds :
    /\ ConvergenceTest_ctor(tests, combo, minIt, maxIt, cv)
    /\ OCUnused /\ SchwarzIdle

CT_InitNorm ==
  /\ normCalls = 0
  /\ \E fnorm \in BaselineValues, pnorm \in BaselineValues :
       ConvergenceTest_initNorm(fnorm, pnorm)
  /\ UNCHANGED << cfgVars, absRun, relRun, lastCall, nCalls, ocVars >>
  /\ UNCHANGED extVars

CT_IsConverged ==
  /\ normCalls = 1
  /\ nCalls < MaxCalls
  /\ \E delta_f \in DeltaFValues, delta_p \in DeltaPValues,
        it \in 0..(MaxIterCfg + 1) :
       ConvergenceTest_isConverged(delta_f, delta_p, it)
  /\ UNCHANGED << cfgVars, f0, p0, normCalls, ocVars >>
  /\ UNCHANGED extVars

NextCT == CT_InitNorm \/ CT_IsConverged

SpecCT == InitCT /\ [][NextCT]_vars

(***************************************************************************)
(* Specification SpecRun: the two running-average criteria, evaluated at   *)
(* consecutive iterations 0, 1, 2, ... as the optimization loop does.      *)
(***************************************************************************)

RunDeltaFValues == { -1000, 2000 }

InitRun ==
  /\ ConvergenceTest_ctor({ "RelRunningDF", "AbsRunningDF" }, "OR",
                          0, MaxRunCalls + 1, 1500)
  /\ OCUnused /\ SchwarzIdle

Run_InitNorm ==
  /\ normCalls = 0
  /\ \E fnorm \in BaselineValues : ConvergenceTest_initNorm(fnorm, 1000)
  /\ UNCHANGED << cfgVars, absRun, relRun, lastCall, nCalls, ocVars >>
  /\ UNCHANGED extVars

Run_IsConverged ==
  /\ normCalls = 1
  /\ nCalls < MaxRunCalls
  /\ \E delta_f \in RunDeltaFValues :
       ConvergenceTest_isConverged(delta_f, 0, nCalls)
  /\ UNCHANGED << cfgVars, f0, p0, normCalls, ocVars >>
  /\ UNCHANGED extVars

NextRun == Run_InitNorm \/ Run_IsConverged

SpecRun == InitRun /\ [][NextRun]_vars

(***************************************************************************)
(* Specification SpecTerm: one run of the OC optimizer for every iteration *)
(* limit, with the bisection search and the simulation free to return any  *)
(* objective; every step that is enabled is eventually taken.              *)
(***************************************************************************)

\* Largest configured Maximum Iterations of the Convergence Tests.
MaxTermIter == 3

\* Objective values: steady, and jumping by more than the threshold.
TermFValues == { 2000, 4000 }
\* Volume residuals: inside the convergence tolerance, far outside it.
TermResidValues == { 10, -300 }

InitTerm ==
  /\ OptimizerOC_ctor("bound", "None", FALSE, MaxVolIter, 10, 20, 400, 360,
                      440, 200, 500)
  /\ \E minIt \in { 0, MaxTermIter + 1 }, maxIt \in -1..MaxTermIter :
       ConvergenceTest_ctor({ "AbsDeltaF" }, "OR", minIt, maxIt, 1500)
  /\ NoFactory("OC") /\ NLIdle /\ ParIdle /\ SchwarzIdle

TermOptimizeBegin ==
  OC_OptimizeBegin(TermFValues, { Fill(-1000) }, { 0 }, DgdpValues,
                   DvdpValues)

TermLoopHead ==
  OC_LoopHead(TermFValues, { Fill(-1000) }, { 0 }, DgdpValues, DvdpValues)

TermBisect == Sub_Bisect(TermResidValues)

NextTerm ==
  \/ Initialize
  \/ TermOptimizeBegin
  \/ TermBisect
  \/ Sub_Check
  \/ OC_AfterFirst
  \/ TermLoopHead
  \/ OC_AfterMain

SpecTerm == InitTerm /\ [][NextTerm]_vars /\ WF_vars(NextTerm)

(***************************************************************************)
(* Specification SpecSub: one call of computeUpdatedTopology, for every    *)
(* search mode and every Volume Enforcement Maximum Iterations; every step *)
(* that is enabled is eventually taken.                                    *)
(***************************************************************************)

InitSub ==
  /\ \E newton \in BOOLEAN, maxIt \in (-1)..MaxVolIter :
       OptimizerOC_ctor("bound", "None", newton, maxIt, 10, 20, 400, 360,
                        440, 200, 500)
  /\ ConvergenceTest_ctor({ "AbsDeltaF" }, "OR", 0, MaxOuter, 1500)
  /\ NoFactory("OC") /\ NLIdle /\ ParIdle /\ SchwarzIdle

NextSub ==
  \/ Initialize
  \/ OptimizeBegin
  \/ Bisect
  \/ Sub_NewtonBegin
  \/ Newton
  \/ Fallback
  \/ Sub_Check

SpecSub == InitSub /\ [][NextSub]_vars /\ WF_vars(NextSub)

(***************************************************************************)
(* Specification SpecLoop: runs of the OC optimizer with no convergence    *)
(* criterion configured, for every Combo Type and every pair of iteration  *)
(* limits.                                                                 *)
(***************************************************************************)

\* The combinator for the lower-cased Combo Type parameter; OR when the
\* parameter is absent.
ConvergenceTest_comboType(param) ==
  IF param = "or" THEN "OR" ELSE IF param = "and" THEN "AND" ELSE "OR"

InitLoop ==
  /\ OptimizerOC_ctor("bound", "None", FALSE, MaxVolIter, 10, 20, 400, 360,
                      440, 200, 500)
  /\ \E param \in { "absent", "or", "and" },
        minIt \in 0..(MaxTermIter + 1), maxIt \in -1..MaxTermIter :
       ConvergenceTest_ctor({}, ConvergenceTest_comboType(param), minIt,
                            maxIt, 1500)
  /\ NoFactory("OC") /\ NLIdle /\ ParIdle /\ SchwarzIdle

SpecLoop == InitLoop /\ [][NextTerm]_vars

(***************************************************************************)
(* Specification SpecAdapt: runs of the OC optimizer in the no-gradient    *)
(* mode over several passes of the loop, with every sequence of zero and   *)
(* nonzero residuals g.                                                    *)
(***************************************************************************)

NextAdapt ==
  \/ Initialize
  \/ TermOptimizeBegin
  \/ TermBisect
  \/ Sub_Check
  \/ OC_AfterFirst
  \/ LoopHead
  \/ OC_AfterMain

SpecAdapt == InitTerm /\ [][NextAdapt]_vars

(***************************************************************************)
(* Specification SpecG0: one run of the OC optimizer in which the          *)
(* simulation returns g = 0 at every iteration of the outer loop, in       *)
(* every mode of the constraint gradient and of the search.                *)
(***************************************************************************)

InitG0 ==
  /\ \E cg \in { "None", "Adjoint" }, newton \in BOOLEAN :
       OptimizerOC_ctor("bound", cg, newton, MaxVolIter, 10, 20, 400, 360,
                        440, 200, 500)
  /\ ConvergenceTest_ctor({ "AbsDeltaF" }, "OR", 0, MaxOuter, 1500)
  /\ NoFactory("OC") /\ NLIdle /\ ParIdle /\ SchwarzIdle

G0LoopHead == OC_LoopHead(FValues, DfdpValues, { 0 }, DgdpValues, DvdpValues)

NextG0 ==
  \/ Initialize
  \/ OptimizeBegin
  \/ Bisect
  \/ Sub_NewtonBegin
  \/ Newton
  \/ Fallback
  \/ Sub_Check
  \/ OC_AfterFirst
  \/ G0LoopHead
  \/ OC_AfterMain

SpecG0 == InitG0 /\ [][NextG0]_vars

(***************************************************************************)
(* Specification SpecApp: the factory creates the optimizer for the        *)
(* configured Package in a build with or without the optional packages,    *)
(* and the optimizer created runs Initialize and Optimize.                 *)
(***************************************************************************)

\* Objective callbacks the library makes at most when nothing else stops it.
MaxEvals == 3

\* Package names: the four the factory knows, an unknown one, a known one in
\* another case, and the empty name.
Packages == { "OC", "Pareto", "NLopt", "DOTk", "Unknown", "oc", "" }
OptionalPackages == { "NLopt", "DOTk" }

\* Designs the library passes to the objective callback.
XValues == { Fill(500), Fill(600) }
\* The constraint tolerance read before its factors are assigned.
ToleranceValues == { NInf, 0, 10, NaN }

InitApp ==
  /\ package \in Packages
  /\ build \in SUBSET OptionalPackages
  /\ backend = OptimizerFactory_create(package, build)
  /\ IF backend = "NLopt"
     THEN \E iface \in { "NULL", "bound" },
             method \in { "MMA", "CCSA", "SLSQP" }, np \in { 1, 2 } :
            OptimizerNLopt_ctor(iface, method, np, 400)
     ELSE IF backend = "OC"
     THEN \E iface \in { "NULL", "bound" } :
            /\ OptimizerOC_ctor(iface, "None", FALSE, MaxVolIter, 10, 20, 400,
                                360, 440, 200, 500)
            /\ NLIdle
     ELSE /\ OptimizerOC_ctor("NULL", "None", FALSE, 0, 0, 0, 0, 0, 0, 0, 0)
          /\ NLIdle
  /\ \E maxIt \in 0..MaxOuter :
       ConvergenceTest_ctor({ "AbsDeltaF" }, "OR", 0, maxIt, 1500)
  /\ ParIdle /\ SchwarzIdle

AppInitialize == backend = "OC" /\ OC_Initialize(RefVolume)

AppOptimizeBegin == backend = "OC" /\ TermOptimizeBegin

AppNLInitialize == NL_Initialize(RefVolume, ToleranceValues)

AppNLOptimizeBegin == NL_OptimizeBegin(TermFValues)

AppNLEvaluate == NL_Evaluate(XValues, TermFValues, MaxEvals)

AppNLReturn == NL_Return(XValues, NLoptCodes)

NextApp ==
  \/ AppInitialize
  \/ AppOptimizeBegin
  \/ TermBisect
  \/ Sub_Check
  \/ OC_AfterFirst
  \/ TermLoopHead
  \/ OC_AfterMain
  \/ AppNLInitialize
  \/ AppNLOptimizeBegin
  \/ AppNLEvaluate
  \/ AppNLReturn

SpecApp == InitApp /\ [][NextApp]_vars

(***************************************************************************)
(* Specification SpecPar: Optimizer_OC::Optimize on several partitions.    *)
(* Each partition runs the same code on its own values; the collective     *)
(* reductions it issues (comm->SumAll, by the quantity reduced) are        *)
(* recorded in the order it issues them.  What isConverged returns is      *)
(* decided by reduced quantities and the iteration, so it is one value per *)
(* iteration for all partitions.                                           *)
(***************************************************************************)

\* Number of partitions.
NumParts == 2
Parts == 1..NumParts

\* The reductions of computeUpdatedTopology (lines 566-567).
TopologyReductions == << "dfdp_tot", "dvdp_tot" >>

\* The reductions of one pass of the loop body for the residual gk: the
\* probe sub-solve and the reduction of dg in the Adjoint mode when
\* gk != 0, then computeUpdatedTopology, delta_f and computeDiffNorm.
BodyReductions(gk) ==
  (IF FNe(gk, 0) /\ constraintGradient = "Adjoint"
   THEN TopologyReductions \o << "dg" >> ELSE << >>)
    \o TopologyReductions \o << "delta_f", "diffnorm" >>

InitPar ==
  /\ \E cg \in { "None", "Adjoint" } :
       OptimizerOC_ctor("bound", cg, FALSE, MaxVolIter, 10, 20, 400, 360, 440,
                        200, 500)
  /\ ConvergenceTest_ctor({ "AbsDeltaF" }, "OR", 0, MaxIterCfg, 1500)
  /\ NoFactory("OC") /\ NLIdle /\ SchwarzIdle
  /\ parPc = [ k \in Parts |-> "start" ]
  /\ parG = [ k \in Parts |-> 0 ]
  /\ parIter = [ k \in Parts |-> 0 ]
  /\ parLog = [ k \in Parts |-> << >> ]
  /\ parVerdict = << >>

\* Partition k runs Optimize up to the loop: Compute, the first
\* computeUpdatedTopology, computeNorm, the reduction of f, initNorm.
Par_Begin(k, gs) ==
  /\ parPc[k] = "start"
  /\ \E gk \in gs : parG' = [ parG EXCEPT ![k] = gk ]
  /\ parLog' = [ parLog EXCEPT
                   ![k] = @ \o TopologyReductions \o << "norm", "f" >> ]
  /\ parPc' = [ parPc EXCEPT ![k] = "loop" ]
  /\ UNCHANGED << parIter, parVerdict, ctVars, ocVars, facVars, nlVars,
                  sch >>

\* Partition k runs one pass of the loop body.  The verdict of isConverged at
\* this iteration is the one another partition has already obtained, or is
\* obtained now from the criteria (any outcome) and the iteration limits.
Par_Body(k, gs) ==
  /\ parPc[k] = "loop"
  /\ \E gk \in gs :
       /\ parG' = [ parG EXCEPT ![k] = gk ]
       /\ parLog' = [ parLog EXCEPT ![k] = @ \o BodyReductions(gk) ]
  /\ IF parIter[k] < Len(parVerdict)
     THEN parVerdict' = parVerdict
     ELSE \E combined \in BOOLEAN :
            parVerdict' =
              Append(parVerdict,
                     IF EarlyReturn(parIter[k]) THEN FALSE
                     ELSE Verdict(parIter[k], combined))
  /\ parPc' = [ parPc EXCEPT
                  ![k] = IF parVerdict'[parIter[k] + 1] THEN "done" ELSE "loop" ]
  /\ parIter' = [ parIter EXCEPT ![k] = @ + 1 ]
  /\ UNCHANGED << ctVars, ocVars, facVars, nlVars, sch >>

ParBegin == \E k \in Parts : Par_Begin(k, GValues)

ParBody == \E k \in Parts : Par_Body(k, GValues)

NextPar == ParBegin \/ ParBody

SpecPar == InitPar /\ [][NextPar]_vars

(***************************************************************************)
(* SchwarzAlternating: the alternating loop over the subdomains.  The      *)
(* subdomain solvers are not part of the sources: the norms they report    *)
(* and whether one of them flags a failure are choices.                    *)
(***************************************************************************)

\* Largest Minimum Iterations and Maximum Iterations configured.
MaxSchwarzIters == 3
\* Largest Maximum Steps configured.
MaxSteps == 1

\* The members after construction, and the locals of SchwarzLoop at its
\* entry: stop 0, current_time the Initial Time.  failed_ starts false.
SchwarzAlternating_ctor(minIt, maxIt, maxSteps, finalTime) ==
  sch = [ pc |-> "constructed", min_iters |-> minIt, max_iters |-> maxIt,
          abs_tol |-> 10, rel_tol |-> 10, maximum_steps |-> maxSteps,
          final_time |-> finalTime, time_step |-> Scale, stop |-> 0,
          current_time |-> 0, num_iter |-> 0, failed |-> FALSE,
          abs_error |-> 0, rel_error |-> 0, converged |-> FALSE,
          cont |-> FALSE ]

\* updateConvergenceCriterion for the norms of the iteration: the errors and
\* the criterion; a comparison with a NaN is false.
updateConvergenceCriterion(s, norm_final, norm_diff) ==
  LET abs_error == norm_diff
      rel_error == IF FGt(norm_final, 0) THEN FDiv(norm_diff, norm_final)
                   ELSE norm_diff
      converged_absolute == ~IsNaN(abs_error) /\ abs_error <= s.abs_tol
      converged_relative == ~IsNaN(rel_error) /\ rel_error <= s.rel_tol
  IN [ s EXCEPT !.abs_error = abs_error, !.rel_error = rel_error,
                !.converged = converged_absolute \/ converged_relative ]

\* A decision in which the iteration limit would be tested before the
\* minimum.
continueSolve_maxfirst(s) ==
  IF s.failed THEN FALSE
  ELSE IF ~FGt(s.abs_error, 0) THEN FALSE
  ELSE IF s.num_iter >= s.max_iters THEN FALSE
  ELSE IF ~(s.num_iter >= s.min_iters) THEN TRUE
  ELSE ~s.converged

\* continueSolve after ++num_iter_, for the members s.
continueSolve(s) ==
  IF s.failed THEN FALSE
  ELSE IF ~FGt(s.abs_error, 0) THEN FALSE
  ELSE IF ~(s.num_iter >= s.min_iters) THEN TRUE
  ELSE IF s.num_iter >= s.max_iters THEN FALSE
  ELSE ~s.converged

\* The test of the continuation loop: the next time step begins with
\* num_iter_ = 0, or SchwarzLoop returns.
Schwarz_StepBegin ==
  /\ sch.pc \in { "constructed", "stepped" }
  /\ sch' = IF /\ sch.stop <= sch.maximum_steps
               /\ ~FGt(sch.current_time, sch.final_time)
               /\ ~IsNaN(sch.current_time) /\ ~IsNaN(sch.final_time)
            THEN [ sch EXCEPT !.pc = "iterating", !.num_iter = 0 ]
            ELSE [ sch EXCEPT !.pc = "finished" ]
  /\ UNCHANGED << ctVars, ocVars, facVars, nlVars, parVars >>

\* One pass of the do-while: the subdomain solves, during which a solver may
\* flag a failure, the norms, updateConvergenceCriterion and continueSolve;
\* when the loop ends, reportFinals, ++stop and current_time += time_step.
Schwarz_Iterate(norms, failures) ==
  /\ sch.pc = "iterating"
  /\ \E norm_final \in norms, norm_diff \in norms, fail \in failures :
       LET solved == [ sch EXCEPT !.failed = @ \/ fail ]
           updated == updateConvergenceCriterion(solved, norm_final, norm_diff)
           counted == [ updated EXCEPT !.num_iter = @ + 1 ]
       IN sch' = IF continueSolve(counted)
                 THEN [ counted EXCEPT !.cont = TRUE ]
                 ELSE [ counted EXCEPT
                          !.cont = FALSE, !.pc = "stepped", !.stop = @ + 1,
                          !.current_time = FAdd(@, counted.time_step) ]
  /\ UNCHANGED << ctVars, ocVars, facVars, nlVars, parVars >>

(***************************************************************************)
(* Specification SpecSchwarz: the alternating loop for every pair of       *)
(* iteration limits, with the norms and the failures free.                 *)
(***************************************************************************)

\* Norms the solvers report: zero, inside and outside the tolerances, NaN.
NormValues == { 0, 5, 2000, NaN }

InitSchwarz ==
  /\ \E minIt \in 0..MaxSchwarzIters, maxIt \in 0..MaxSchwarzIters,
        finalTime \in { 0, Scale } :
       SchwarzAlternating_ctor(minIt, maxIt, MaxSteps, finalTime)
  /\ ConvergenceTest_ctor({}, "OR", 0, 0, 0)
  /\ OCUnused

SchwarzIterate == Schwarz_Iterate(NormValues, BOOLEAN)

NextSchwarz == Schwarz_StepBegin \/ SchwarzIterate

SpecSchwarz == InitSchwarz /\ [][NextSchwarz]_vars

(***************************************************************************)
(* Properties of ConvergenceTest                                           *)
(***************************************************************************)

\* The outcome of criterion `kind` in the last call (it must be active).
ResultOf(kind) ==
  LET active == SelectSeq(KindOrder, LAMBDA k : k \in conTests)
      i == CHOOSE j \in 1..Len(active) : active[j] = kind
  IN lastCall.results[i]

AllPassed == \A i \in 1..Len(lastCall.results) : lastCall.results[i]
SomePassed == \E i \in 1..Len(lastCall.results) : lastCall.results[i]

\* C5: a call of isConverged with iter = 0 returns not-converged, for every
\* configuration (any criteria, either combinator, any minIterations and
\* maxIterations, maxIterations <= 0 included) and any deltas.
C5_IterZeroNotConverged ==
  (lastCall.called /\ lastCall.iter = 0) => ~lastCall.converged

\* A call at iter = 0 of a test that would otherwise report convergence twice
\* over: the iteration limit is already reached and AND over no criterion holds.
C5_Witness ==
  /\ lastCall.called /\ lastCall.iter = 0
  /\ maxIterations <= 0 /\ minIterations = 0
  /\ comboType = "AND" /\ conTests = {}

\* C6 as stated: every call with iter >= maxIterations returns converged.
C6_Original ==
  (lastCall.called /\ lastCall.iter >= maxIterations) => lastCall.converged

\* C6 amended: every call with iter >= maxIterations and iter >= 1 returns
\* converged, whatever the criteria, the combinator and minIterations; a call
\* with iter = 0 returns not-converged even when maxIterations <= 0.
C6_LimitForcesConvergence ==
  (lastCall.called /\ lastCall.iter >= 1 /\ lastCall.iter >= maxIterations)
    => lastCall.converged

\* A call at the iteration limit, below minIterations, in which a criterion
\* was evaluated and none passed.
C6_Witness ==
  /\ lastCall.called /\ lastCall.iter >= 1
  /\ lastCall.iter >= maxIterations /\ lastCall.iter < minIterations
  /\ Len(lastCall.results) >= 1 /\ ~SomePassed
  /\ lastCall.converged

\* C7 as stated: no call with iter < minIterations returns converged.
C7_Original ==
  (lastCall.called /\ lastCall.iter < minIterations) => ~lastCall.converged

\* C7 amended: no call with iter < minIterations and iter < maxIterations
\* returns converged, for any outcomes of the criteria and either combinator;
\* at iter >= maxIterations (iter >= 1) the iteration limit wins over
\* minIterations.
C7_MinIterationsHold ==
  (lastCall.called /\ lastCall.iter < minIterations
     /\ lastCall.iter < maxIterations)
    => ~lastCall.converged

\* A call below minIterations and below the limit in which every criterion
\* passed under either combinator, and the verdict is not-converged.
C7_Witness ==
  /\ lastCall.called /\ lastCall.iter >= 1
  /\ lastCall.iter < minIterations /\ lastCall.iter < maxIterations
  /\ Len(lastCall.results) >= 1 /\ AllPassed
  /\ ~lastCall.converged

\* C8: for a call with iter >= 1, minIterations <= iter < maxIterations and at
\* least one active criterion, the verdict is the combinator applied to the
\* outcomes: under AND converged exactly when every criterion passed, under OR
\* converged exactly when at least one passed.
C8_CombinatorLaw ==
  (lastCall.called /\ lastCall.iter >= 1
     /\ minIterations <= lastCall.iter /\ lastCall.iter < maxIterations
     /\ conTests # {})
    => /\ Len(lastCall.results) = Cardinality(conTests)
       /\ comboType = "AND" => (lastCall.converged <=> AllPassed)
       /\ comboType = "OR" => (lastCall.converged <=> SomePassed)

\* A call in the window with two criteria of which exactly one passed: AND
\* gives not-converged.
C8_Witness ==
  /\ lastCall.called /\ lastCall.iter >= 1
  /\ minIterations = lastCall.iter /\ lastCall.iter < maxIterations
  /\ Len(lastCall.results) >= 2 /\ SomePassed /\ ~AllPassed
  /\ comboType = "AND" /\ ~lastCall.converged

\* C9: once initNorm has seeded a zero baseline, the relative criteria never
\* pass: RelDeltaP with p0 = 0, RelDeltaF and RelRunningDF with f0 = 0, for
\* every delta and every earlier evaluation.
C9_ZeroBaselineNeverPasses ==
  (lastCall.called /\ lastCall.evaluated /\ normCalls = 1)
    => /\ (p0 = 0 /\ "RelDeltaP" \in conTests) => ~ResultOf("RelDeltaP")
       /\ (f0 = 0 /\ "RelDeltaF" \in conTests) => ~ResultOf("RelDeltaF")
       /\ (f0 = 0 /\ "RelRunningDF" \in conTests) => ~ResultOf("RelRunningDF")

\* Both baselines are zero, every criterion is active, it is the second
\* evaluation, and the absolute criteria pass on the same deltas.
C9_Witness ==
  /\ lastCall.called /\ lastCall.evaluated /\ normCalls = 1
  /\ p0 = 0 /\ f0 = 0 /\ conTests = Kinds
  /\ Len(relRun.dF) = 2
  /\ ResultOf("AbsDeltaP") /\ ResultOf("AbsDeltaF")
  /\ ~ResultOf("RelDeltaP")

\* The sum of the last min(Len(s), nave) elements of s.
WindowSum(s) ==
  LET n == Len(s)
      k == IF n > nave THEN nave ELSE n
  IN SumSeq(SubSeq(s, n - k + 1, n))

\* C10 as stated: after n >= 1 evaluations the running sum of each
\* running-average criterion is the sum of the most recent min(n, 10) deltas.
C10_RunningSumIsWindowSum ==
  /\ Len(absRun.dF) >= 1 => absRun.runningDF = WindowSum(absRun.dF)
  /\ Len(relRun.dF) >= 1 => relRun.runningDF = WindowSum(relRun.dF)

\* Every sample of the history s is d.
ConstantHistory(s, d) == \A i \in 1..Len(s) : s[i] = d

\* C11: when the same delta d has been fed on n >= 10 consecutive
\* evaluations, the quantity each running-average criterion compares with its
\* threshold is d for the absolute criterion and |d/f0| for the relative one.
C11_SaturatedAverageIsDelta ==
  \A d \in RunDeltaFValues :
    /\ (Len(absRun.dF) >= nave /\ ConstantHistory(absRun.dF, d))
         => AbsRunningDF_compared(absRun) = d
    /\ (Len(relRun.dF) >= nave /\ ConstantHistory(relRun.dF, d) /\ f0 # 0)
         => RelRunningDF_compared(relRun) = FAbs(FDiv(d, f0))

\* C12: the history of deltas stored by each running-average criterion never
\* holds more than nave = 10 samples.
C12_HistoryBounded ==
  Len(absRun.dF) <= nave /\ Len(relRun.dF) <= nave

(***************************************************************************)
(* Properties of Optimizer_OC                                              *)
(***************************************************************************)

\* lo <= x <= hi in double arithmetic (false when an operand is NaN).
InRange(x, lo, hi) == FLe(lo, x) /\ FLe(x, hi)

\* C1: whenever computeUpdatedTopology returns normally, by any of its paths,
\* the volume of the design it leaves behind is within the acceptable
\* tolerance of the target: |vol - _volConstraint*_optVolume| <=
\* _volAccpTol*_optVolume.
C1_ReturnWithinAcceptTol ==
  pc = "returned" =>
    FLe(FAbs(Residual(vol)), FMul(volAccpTol, optVolume))

\* C2: every design written by a topology update of the sub-solve is, entry
\* by entry, within the move limit of p_last and within the Topology bounds.
C2_ClampsHold ==
  ret # "none" =>
    \A i \in Dofs :
      /\ InRange(p[i], FSub(p_last[i], moveLimit), FAdd(p_last[i], moveLimit))
      /\ InRange(p[i], minDensity, maxDensity)

\* C3: after Initialize and after every sub-solve of every outer iteration,
\* every entry of p lies within [minDensity, maxDensity].
C3_DesignWithinBounds ==
  pc \in { "initialized", "returned", "loop", "done" } =>
    \A i \in Dofs : InRange(p[i], minDensity, maxDensity)

\* C4: _volConstraint lies within [_minVolume, _maxVolume] in every state of
\* the optimizer: after construction, while the probe sub-solve runs, and
\* after every adaptation of the target.
C4_TargetWithinBounds ==
  InRange(volConstraint, minVolume, maxVolume)

\* The larger of two integers.
Max(a, b) == IF a >= b THEN a ELSE b

\* C13: a run of OC Optimize in which no constraint sub-solve raises the
\* fatal error terminates, and when it has terminated the body of the outer
\* loop has run (iter counts the runs) at least 2 and at most
\* max(maxIterations, 1) + 1 times, the last check having reported converged
\* at an iteration index >= 1.
C13_OptimizeTerminates ==
  /\ <>(pc \in { "done", "fatal" })
  /\ [](pc = "done" =>
          /\ 2 <= iter /\ iter <= Max(maxIterations, 1) + 1
          /\ lastCall.converged /\ lastCall.iter = iter - 1)
  /\ [](pc \in { "loop", "bisect", "check", "returned" } /\ lastCall.called
          => ~lastCall.converged /\ iter <= Max(maxIterations, 1))

\* A run that stopped only at the iteration limit, after the largest number
\* of runs of the body.
C13_Witness ==
  /\ pc = "done" /\ maxIterations = MaxTermIter /\ iter = MaxTermIter + 1
  /\ lastCall.results = << FALSE >>

\* C14: when g is 0 at every iteration of the outer loop, no step of the run
\* modifies _volConstraint or the slope history, and the remembered previous
\* target changes only where it is initialised to _volConstraint on entry to
\* the loop, in the Adjoint and in the no-gradient mode.
C14_ZeroResidualKeepsTarget ==
  [][ /\ volConstraint' = volConstraint
      /\ dgdv_vals' = dgdv_vals
      /\ volConstraint_last' # volConstraint_last
           => /\ pc = "returned" /\ ret = "first"
              /\ volConstraint_last' = volConstraint ]_vars

\* A complete run in the Adjoint mode with g = 0 in the loop.
C14_Witness ==
  /\ pc = "done" /\ constraintGradient = "Adjoint" /\ iter >= 2 /\ g = 0
  /\ volConstraint_last = volConstraint /\ dgdv_vals = << >>

(***************************************************************************)
(* Properties of the backends together                                     *)
(***************************************************************************)

\* C15: in one run of Optimize, of the OC backend and of the NLopt adapter,
\* initNorm is never called a second time, it has been called when
\* isConverged is called, and a run that has ended normally has called it
\* exactly once.
C15_InitNormOnceBeforeIsConverged ==
  /\ normCalls <= 1
  /\ lastCall.called => normCalls = 1
  /\ (backend \in { "OC", "NLopt" } /\ pc = "done") => normCalls = 1

\* The adapter has ended normally after isConverged forced the stop.
C15_Witness ==
  /\ backend = "NLopt" /\ pc = "done" /\ lastCall.called
  /\ lastCall.converged /\ normCalls = 1

\* C17: at every objective callback after the first, the design delta passed
\* to isConverged is the Euclidean norm of the difference between the design
\* of this callback and the design of the previous callback, and the
\* objective delta is f of this callback minus f of the previous evaluation.
C17_DeltasAreCallbackDifferences ==
  (backend = "NLopt" /\ xPrev # Null) =>
    /\ lastCall.delta_p = computeDiffNorm(xCur, xPrev)
    /\ lastCall.delta_f = FSub(f, fPrev)

\* C18: Optimize of the adapter ends normally when nlopt_optimize returns
\* NLOPT_FORCED_STOP or any non-negative code, and ends with the fatal error
\* when it returns any other negative code.
C18_ReturnCodeDecidesOutcome ==
  (backend = "NLopt" /\ opt # "NULL" /\ pc \in { "done", "fatal" }) =>
    /\ (errorcode = NLOPT_FORCED_STOP \/ errorcode >= 0) => pc = "done"
    /\ (errorcode # NLOPT_FORCED_STOP /\ errorcode < 0) => pc = "fatal"

\* Optimize has ended normally on the forced stop.
C18_Witness ==
  /\ backend = "NLopt" /\ pc = "done" /\ errorcode = NLOPT_FORCED_STOP
  /\ forceStop = ATO_XTOL_REACHED

\* The Package names the factory supports in a build with the optional
\* packages bld.
Supported(bld) == { "OC", "Pareto" } \cup bld

\* C19: for a Package name that is not a supported backend the factory
\* constructs no optimizer, and nothing follows: no Initialize, no Optimize,
\* no simulation call; for a supported name it constructs exactly the backend
\* of that name.
C19_FactoryHasNoDefault ==
  /\ package \notin Supported(build) =>
       /\ backend = "none"
       /\ pc = "constructed" /\ p = Null /\ optVolume = 0 /\ f = 0
       /\ normCalls = 0 /\ nCalls = 0 /\ nIterations = 0
  /\ package \in Supported(build) => backend = package

\* NLopt is asked for in a build without it.
C19_Witness ==
  /\ package = "NLopt" /\ "NLopt" \notin build /\ backend = "none"
  /\ pc = "constructed"

\* C20: after Initialize of the OC optimizer with no SolverInterface bound
\* the run has ended with the fatal error, no vector is allocated and no
\* simulation call has been made (the reference volume and the objective
\* are as constructed).
C20_NoInterfaceFailsFirst ==
  (backend = "OC" /\ solverInterface = "NULL" /\ pc # "constructed") =>
    /\ pc = "fatal"
    /\ p = Null /\ p_last = Null /\ dfdp = Null /\ dvdp = Null /\ dgdp = Null
    /\ optVolume = 0 /\ f = 0 /\ g = 0
    /\ normCalls = 0 /\ nCalls = 0

\* Initialize has been called without a SolverInterface.
C20_Witness ==
  backend = "OC" /\ solverInterface = "NULL" /\ pc = "fatal" /\ p = Null

\* s is an initial part of t.
IsPrefix(s, t) == Len(s) <= Len(t) /\ SubSeq(t, 1, Len(s)) = s

\* C16: any two partitions issue the same sequence of reductions (what one
\* has issued so far extends what the other has issued) and leave the loop
\* at the same iteration, whatever g the simulation returns on each.
C16_SameReductionsSameExit ==
  \A j \in Parts, k \in Parts :
    /\ IsPrefix(parLog[j], parLog[k]) \/ IsPrefix(parLog[k], parLog[j])
    /\ (parPc[j] = "done" /\ parPc[k] = "done") => parIter[j] = parIter[k]

(***************************************************************************)
(* Properties of the adaptation of the volume target                       *)
(***************************************************************************)

\* The step of Optimize that adapts the target: the head of the loop body in
\* the no-gradient mode with g != 0, and the return of the probe sub-solve.
\* After it volConstraint_last holds the target before the update.
IsAdaptation ==
  \/ pc = "loop" /\ constraintGradient # "Adjoint" /\ FNe(g', 0)
  \/ pc = "returned" /\ ret = "probe"

\* C21: in every adaptation the new target is the old one moved by a step of
\* magnitude at most 0.1 times the old target and then clamped into
\* [minVolume, maxVolume], whatever slope was estimated.
C21_StepLimitedThenClamped ==
  [][ IsAdaptation =>
        /\ IsFin(volConstraint_last')
        /\ \E deltav \in (- FMul(100, volConstraint_last'))
                            ..FMul(100, volConstraint_last') :
             volConstraint' = ClampTarget(FAdd(volConstraint_last', deltav)) ]_vars

\* C22: in the no-gradient mode, in a pass of the loop with g != 0 before
\* which the target did not change since the previous pass (the first pass,
\* or a pass that follows a pass with g = 0), the step is the fixed fallback
\* and no slope sample is added to the history.
C22_UnchangedTargetUsesFallback ==
  [][ ( /\ pc = "loop" /\ constraintGradient = "None" /\ FNe(g', 0)
        /\ (iter = 0 \/ g = 0) )
      => /\ dgdv_vals' = dgdv_vals
         /\ volConstraint' = UpdatedTarget(volConstraint, deltavFallback) ]_vars

\* The bracket computeUpdatedTopology starts from: v1 = 0 and
\* v2 = -10*sum(dfdp)/sum(dvdp).
OriginalV2 == FDiv(FMul(-10 * Scale, SumSeq(dfdp)), SumSeq(dvdp))

\* C23 (as stated): when the Newton phase ends without meeting the
\* tolerance, the bisection is re-run from scratch: the counter restarts at
\* 0 and the bracket is the original one, v1 = 0 and
\* v2 = -10*sum(dfdp)/sum(dvdp).
C23_FallbackFromOriginalBracket ==
  [][ (pc # "fallback" /\ pc' = "fallback")
      => /\ niters' = 0
         /\ v1' = 0
         /\ v2' = OriginalV2 ]_vars

\* C23 (amended): when the Newton phase ends without meeting the tolerance,
\* the counter restarts at 0 and the bisection continues from the bracket
\* the first bisection left; each of its steps tries the midpoint of the
\* bracket, and the multiplier of the Newton phase is not used.
C23_FallbackKeepsBracket ==
  [][ /\ (pc # "fallback" /\ pc' = "fallback")
         => (niters' = 0 /\ v1' = v1 /\ v2' = v2 /\ ~converged')
      /\ pc = "fallback"
         => /\ p' = UpdatedTopology(FDiv(FAdd(v2, v1), 2 * Scale))
            /\ niters' = niters + 1
            /\ \/ v1' = FDiv(FAdd(v2, v1), 2 * Scale) /\ v2' = v2
               \/ v2' = FDiv(FAdd(v2, v1), 2 * Scale) /\ v1' = v1 ]_vars

C23_Witness ==
  /\ pc = "fallback" /\ niters = 1 /\ useNewtonSearch
  /\ FGt(lambda, 0) /\ v1 # 0

\* C24: every call of computeUpdatedTopology ends, whatever volumes the
\* simulation returns and whatever Volume Enforcement Maximum Iterations is:
\* the first bisection takes at least one and at most max(volMaxIter, 1)
\* steps, the Newton phase at most 10 iterations, and the fallback bisection
\* at least one and at most max(volMaxIter, 1) steps.
C24_SubSolveBounded ==
  /\ [] ( /\ pc = "bisect" => niters < Max(volMaxIter, 1)
          /\ pc = "newton_begin" => niters \in 1..Max(volMaxIter, 1)
          /\ pc = "newton" => /\ newtonMaxIters - 10 <= niters
                              /\ niters < newtonMaxIters
                              /\ newtonMaxIters - 10 \in 1..Max(volMaxIter, 1)
          /\ pc = "fallback" => niters < Max(volMaxIter, 1)
          /\ (pc = "check" /\ ~converged) => niters \in 1..Max(volMaxIter, 1) )
  /\ (pc = "bisect" ~> pc \in { "returned", "fatal" })

C24_Witness ==
  /\ pc = "returned" /\ useNewtonSearch /\ ~converged
  /\ FGt(lambda, 0) /\ volMaxIter <= 0 /\ niters = 1

\* The smaller of two integers.
Min(a, b) == IF a <= b THEN a ELSE b

\* With no criterion configured, a call with iter >= 1 and
\* minIterations <= iter < maxIterations returns converged under AND and
\* not-converged under OR.
NoCriteriaLaw ==
  ( /\ lastCall.called /\ conTests = {} /\ lastCall.iter >= 1
    /\ minIterations <= lastCall.iter /\ lastCall.iter < maxIterations )
  => (lastCall.converged <=> comboType = "AND")

\* C25 (as stated): the law of the single call, and hence the OC loop stops
\* at iteration index max(1, minIterations) under AND and only at the
\* iteration limit under OR.
C25_Original ==
  /\ NoCriteriaLaw
  /\ (pc = "done" /\ comboType = "AND")
       => lastCall.iter = Max(1, minIterations)
  /\ (pc = "done" /\ comboType = "OR")
       => lastCall.iter = Max(1, maxIterations)

\* C25 (amended): the law of the single call; the OC loop stops at iteration
\* index max(1, min(minIterations, maxIterations)) under AND, which is
\* max(1, minIterations) when minIterations <= maxIterations, and at
\* max(1, maxIterations) under OR.
C25_NoCriteriaStop ==
  /\ NoCriteriaLaw
  /\ (pc = "done" /\ comboType = "AND")
       => lastCall.iter = Max(1, Min(minIterations, maxIterations))
  /\ (pc = "done" /\ comboType = "OR")
       => lastCall.iter = Max(1, maxIterations)
  /\ (pc # "done" /\ lastCall.called) => ~lastCall.converged

C25_Witness ==
  /\ pc = "done" /\ comboType = "AND" /\ conTests = {}
  /\ minIterations = 2 /\ maxIterations = 3 /\ lastCall.iter = 2

\* C26: when Initialize of the adapter has handed the constraint tolerance to
\* the library, the tolerance is the product of the volume convergence
\* tolerance and the reference volume queried from the simulation.
C26_ToleranceFromAssignedValues ==
  (backend = "NLopt" /\ pc = "nl_initialized")
    => /\ optVolume = RefVolume
       /\ tolerance = FMul(volConvTol, optVolume)

\* The decision of the last completed iteration, by the precedence with
\* `zero` the test of the absolute error.
FollowsPrecedence(zero) ==
  sch.cont = ( IF sch.failed THEN FALSE
               ELSE IF zero THEN FALSE
               ELSE IF sch.num_iter < sch.min_iters THEN TRUE
               ELSE IF sch.num_iter >= sch.max_iters THEN FALSE
               ELSE ~sch.converged )

\* The loop goes on exactly when the decision was to continue, and a time
\* step that has ended ran at least 1 and at most max(minimum, maximum, 1)
\* iterations.
IterationBounds ==
  /\ (sch.pc = "iterating" /\ sch.num_iter >= 1) => sch.cont
  /\ sch.pc = "stepped"
       => /\ ~sch.cont
          /\ 1 <= sch.num_iter
          /\ sch.num_iter <= Max(Max(sch.min_iters, sch.max_iters), 1)

====
